---- MODULE Spec2Model ----
(***************************************************************************)
(* Model of src/src/tswow-orm.ts: the entity model built by handleClass,  *)
(* the schema reconciliation that tableGeneration emits for every table   *)
(* (run by WriteTables at start-up), and the persistence operations       *)
(* (save / Load / remove) that handleClass emits for every entity.        *)
(***************************************************************************)
EXTENDS Integers, Sequences, FiniteSets, TLC

\* ------------------------------------------------------------------ bounds
\* Most decorated members (@Field / @PrimaryKey) in one declared class.
MaxFields == 2
\* Most columns the catalog reports for one table.
MaxCols == 2
\* Most keys of one sub-map.
MaxKeys == 2

\* ------------------------------------------------------------ entity model
\* tswow-orm.ts:10-24
MethodTypes ==
  {"string", "uint8", "uint16", "uint32", "uint64", "int8", "int16",
   "int32", "int64", "float", "double", "int"}

\* The scalar types the declarations of the model draw from, and one type
\* text that is no key of MethodTypes.
DeclTypes == {"uint32", "string"}
MemberTypes == DeclTypes \cup {"bool"}

\* Member names by position in the class body, and the one class name.
MemberNames == <<"id", "gold", "items", "rank">>
ClassNames == {"Player"}

\* tswow-orm.ts:28-44 (class Field)
Field(name, type, isPrimaryKey, initialization) ==
  [name |-> name, type |-> type, isPrimaryKey |-> isPrimaryKey,
   initialization |-> initialization]

\* The default literal a declaration of the model gives a member of a type.
DefaultLiteral(type) == IF type = "string" THEN "\"\"" ELSE "0"

\* String.prototype.toLowerCase on the names of the model.
ToLowerCase(s) ==
  CASE s = "Player" -> "player"
    [] s = "Guild" -> "guild"
    [] OTHER -> s

\* tswow-orm.ts:59-61 (DBDictionary.db_name)
db_name(className, dictName) ==
  ToLowerCase(className) \o "_" \o ToLowerCase(dictName)

\* A decorated member of a class declaration: a scalar property or a
\* TSDBDict<K,V> property (tswow-orm.ts:127-155).
ScalarMembers ==
  [kind : {"scalar"}, type : MemberTypes, isPrimaryKey : BOOLEAN,
   hasInit : BOOLEAN, keyType : {""}, valueType : {""}]
DictMembers ==
  [kind : {"dict"}, type : {"TSDBDict"}, isPrimaryKey : {FALSE},
   hasInit : {TRUE}, keyType : MemberTypes, valueType : DeclTypes]
Members == ScalarMembers \cup DictMembers

Declarations ==
  UNION {[1..n -> Members] : n \in 1..MaxFields}

VARIABLES
  pc,             \* where the program is: generation, then one table's run
  entries,        \* tswow-orm.ts:91, the registry of accepted entities
  emitted,        \* the persistence operations written for accepted classes
  tableName,      \* the table of the current tableGeneration block
  fields,         \* the Field[] of the current tableGeneration block
  table,          \* the live table: its columns as the catalog reports them
  rows,           \* the result of the COLUMNS query of this run
  pos,            \* the row the do/while loop is at
  should_create,  \* tswow-orm.ts:449
  found,          \* the fields x with found_x = true
  log,            \* ask() calls and executed statements, in order
  dbRows,         \* the rows of the entity's table, a value per column
  dbMap,          \* per sub-map, the rows of its subordinate table
  obj,            \* the entity instance the application holds
  last            \* the operation the application performed last, and what it
                  \* did to each sub-map key since the flush before

genVars == <<entries, emitted>>
runVars == <<tableName, fields, table, rows, pos, should_create, found, log>>
persistVars == <<dbRows, dbMap, obj, last>>
vars == <<pc, genVars, runVars, persistVars>>

\* ------------------------------------------------------------- sequences
RECURSIVE SelectSeqBy(_, _, _)
\* Array.prototype.filter, with the test given as a set of accepted elements.
SelectSeqBy(s, keep, i) ==
  IF i > Len(s) THEN <<>>
  ELSE (IF s[i] \in keep THEN <<s[i]>> ELSE <<>>) \o SelectSeqBy(s, keep, i + 1)

Filter(s, keep) == SelectSeqBy(s, keep, 1)

Range(s) == {s[i] : i \in 1..Len(s)}

PrimaryKeys(fs) == Filter(fs, {f \in Range(fs) : f.isPrimaryKey})
NonPrimaryKeys(fs) == Filter(fs, {f \in Range(fs) : ~f.isPrimaryKey})
Names(fs) == [i \in 1..Len(fs) |-> fs[i].name]

\* ------------------------------------------------------------ handleClass
\* The Error handleClass throws at one member, "" when it accepts it
\* (tswow-orm.ts:155-183).
MemberError(m) ==
  IF m.kind = "dict"
  THEN IF m.keyType \notin MethodTypes \/ m.valueType \notin MethodTypes
       THEN "Invalid type for database dict"
       ELSE ""
  ELSE IF m.type \notin MethodTypes THEN "Invalid type for database field"
       ELSE IF m.type = "string" /\ m.isPrimaryKey
            THEN "Strings cannot be primary keys (yet)"
       ELSE IF ~m.hasInit THEN "Database fields must be initialized"
       ELSE ""

\* entry.fields and entry.dictionaries after the member loop
\* (tswow-orm.ts:162-167 and 182).
RECURSIVE FieldsOf(_, _)
FieldsOf(decl, i) ==
  IF i > Len(decl) THEN <<>>
  ELSE (IF decl[i].kind = "scalar"
        THEN <<Field(MemberNames[i], decl[i].type, decl[i].isPrimaryKey,
                     DefaultLiteral(decl[i].type))>>
        ELSE <<>>) \o FieldsOf(decl, i + 1)

RECURSIVE DictionariesOf(_, _)
DictionariesOf(decl, i) ==
  IF i > Len(decl) THEN <<>>
  ELSE (IF decl[i].kind = "dict"
        THEN <<[name |-> MemberNames[i], keyType |-> decl[i].keyType,
                valueType |-> decl[i].valueType]>>
        ELSE <<>>) \o DictionariesOf(decl, i + 1)

\* tswow-orm.ts:80-88 (class Entry)
Entry(className, databaseType, decl) ==
  [className |-> className, databaseType |-> databaseType,
   fields |-> FieldsOf(decl, 1), dictionaries |-> DictionariesOf(decl, 1)]

\* The Error that ends handleClass, "" when the class is accepted
\* (tswow-orm.ts:127-191).
ClassError(decl) ==
  IF \E i \in 1..Len(decl) : MemberError(decl[i]) # ""
  THEN MemberError(decl[CHOOSE i \in 1..Len(decl) :
         /\ MemberError(decl[i]) # ""
         /\ \A j \in 1..(i - 1) : MemberError(decl[j]) = ""])
  ELSE IF Len(PrimaryKeys(FieldsOf(decl, 1))) = 0
       THEN "Database rows must have at least one primary key."
       ELSE ""

\* ------------------------------------------------- emitted query texts
\* The texts handleClass writes, kept as their parts: the table named
\* between the backticks and the columns in the order they are written.

\* tswow-orm.ts:196-204
loadQuery(entry) ==
  [table |-> entry.className, where |-> Names(PrimaryKeys(entry.fields))]

\* The VALUES list of saveQuery: one value per field (tswow-orm.ts:210-220).
SaveValues(entry) ==
  [i \in 1..Len(entry.fields) |->
     [field |-> entry.fields[i].name,
      quoted |-> entry.fields[i].type = "string"]]

\* SaveUpdates over the non-primary-key fields only (a mutant).
SaveUpdatesNonKey(entry) ==
  [i \in 1..Len(NonPrimaryKeys(entry.fields)) |->
     [column |-> NonPrimaryKeys(entry.fields)[i].name,
      field |-> NonPrimaryKeys(entry.fields)[i].name,
      quoted |-> NonPrimaryKeys(entry.fields)[i].type = "string"]]

\* The ON DUPLICATE KEY UPDATE list of saveQuery (tswow-orm.ts:222-236).
SaveUpdates(entry) ==
  [i \in 1..Len(entry.fields) |->
     [column |-> entry.fields[i].name, field |-> entry.fields[i].name,
      quoted |-> entry.fields[i].type = "string"]]

\* tswow-orm.ts:206-239
saveQuery(entry) ==
  [table |-> ToLowerCase(entry.className),
   values |-> SaveValues(entry), updates |-> SaveUpdates(entry)]

\* tswow-orm.ts:243-250
removeQuery(entry) ==
  [table |-> ToLowerCase(entry.className),
   where |-> Names(PrimaryKeys(entry.fields))]

\* tswow-orm.ts:302-305
LoadQuery(entry) == [table |-> ToLowerCase(entry.className)]

\* Everything handleClass writes for an accepted class.
Emit(entry) ==
  [className |-> entry.className, loadQuery |-> loadQuery(entry),
   saveQuery |-> saveQuery(entry), removeQuery |-> removeQuery(entry),
   LoadQuery |-> LoadQuery(entry)]

\* handleClass that registers the entry before it validates the members
\* (a mutant).
handleClassEager ==
  /\ pc = "declare"
  /\ \E className \in ClassNames, decl \in Declarations :
       /\ pc' = IF ClassError(decl) # "" THEN "thrown" ELSE "generated"
       /\ entries' = Append(entries, Entry(className, "world", decl))
       /\ emitted' = IF ClassError(decl) # "" THEN emitted
                     ELSE Append(emitted, Emit(Entry(className, "world", decl)))
  /\ UNCHANGED <<runVars, persistVars>>

\* tswow-orm.ts:98-389: a decorated class is either rejected with an Error,
\* before anything is registered or written, or registered and written.
handleClass ==
  /\ pc = "declare"
  /\ \E className \in ClassNames, decl \in Declarations :
       IF ClassError(decl) # ""
       THEN /\ pc' = "thrown"
            /\ UNCHANGED <<entries, emitted>>
       ELSE /\ pc' = "generated"
            /\ entries' = Append(entries, Entry(className, "world", decl))
            /\ emitted' = Append(emitted, Emit(Entry(className, "world", decl)))
  /\ UNCHANGED <<runVars, persistVars>>

\* ---------------------------------------------------------- SQL types
\* getReadSQLType with the width of the signed INT mistyped (a mutant).
getReadSQLTypeNarrowInt(field) ==
  CASE field.type = "int" -> "INT(10)"
    [] field.type = "int8" -> "TINYINT(4)"
    [] field.type = "int16" -> "SMALLINT(6)"
    [] field.type = "int32" -> "INT(10)"
    [] field.type = "int64" -> "BIGINT(20)"
    [] field.type = "uint8" -> "TINYINT(3) UNSIGNED"
    [] field.type = "uint16" -> "SMALLINT(5) UNSIGNED"
    [] field.type = "uint32" -> "INT(10) UNSIGNED"
    [] field.type = "uint64" -> "BIGINT(20) UNSIGNED"
    [] field.type = "float" -> "FLOAT"
    [] field.type = "double" -> "DOUBLE"
    [] field.type = "string" -> "TEXT"

\* tswow-orm.ts:408-423
getReadSQLType(field) ==
  CASE field.type = "int" -> "INT(11)"
    [] field.type = "int8" -> "TINYINT(4)"
    [] field.type = "int16" -> "SMALLINT(6)"
    [] field.type = "int32" -> "INT(11)"
    [] field.type = "int64" -> "BIGINT(20)"
    [] field.type = "uint8" -> "TINYINT(3) UNSIGNED"
    [] field.type = "uint16" -> "SMALLINT(5) UNSIGNED"
    [] field.type = "uint32" -> "INT(10) UNSIGNED"
    [] field.type = "uint64" -> "BIGINT(20) UNSIGNED"
    [] field.type = "float" -> "FLOAT"
    [] field.type = "double" -> "DOUBLE"
    [] field.type = "string" -> "TEXT"

\* tswow-orm.ts:425-440
getWriteSQLType(field) ==
  CASE field.type = "int" -> "INT"
    [] field.type = "int8" -> "TINYINT"
    [] field.type = "int16" -> "SMALLINT"
    [] field.type = "int32" -> "INT"
    [] field.type = "int64" -> "BIGINT"
    [] field.type = "uint8" -> "TINYINT UNSIGNED"
    [] field.type = "uint16" -> "SMALLINT UNSIGNED"
    [] field.type = "uint32" -> "INT UNSIGNED"
    [] field.type = "uint64" -> "BIGINT UNSIGNED"
    [] field.type = "float" -> "FLOAT"
    [] field.type = "double" -> "DOUBLE"
    [] field.type = "string" -> "TEXT"

\* The COLUMN_TYPE texts the catalog of the model reports: the server
\* reports a type in lower case.
RawTypes == {"int(10) unsigned", "bigint(20) unsigned", "text"}

\* std::toupper on one character.
toupper(c) ==
  CASE c = "a" -> "A"
    [] c = "b" -> "B"
    [] c = "c" -> "C"
    [] c = "d" -> "D"
    [] c = "e" -> "E"
    [] c = "f" -> "F"
    [] c = "g" -> "G"
    [] c = "h" -> "H"
    [] c = "i" -> "I"
    [] c = "j" -> "J"
    [] c = "k" -> "K"
    [] c = "l" -> "L"
    [] c = "m" -> "M"
    [] c = "n" -> "N"
    [] c = "o" -> "O"
    [] c = "p" -> "P"
    [] c = "q" -> "Q"
    [] c = "r" -> "R"
    [] c = "s" -> "S"
    [] c = "t" -> "T"
    [] c = "u" -> "U"
    [] c = "v" -> "V"
    [] c = "w" -> "W"
    [] c = "x" -> "X"
    [] c = "y" -> "Y"
    [] c = "z" -> "Z"
    [] OTHER -> c

\* std::transform(type.begin(), type.end(), type.begin(), std::toupper)
\* (tswow-orm.ts:495-497).
RECURSIVE ToUpperFrom(_, _)
ToUpperFrom(type, i) ==
  IF i > Len(type) THEN ""
  ELSE toupper(SubSeq(type, i, i)) \o ToUpperFrom(type, i + 1)

\* The COLUMN_TYPE the server reports for a column defined with a write type.
ColumnType(writeType) ==
  CASE writeType = "INT" -> "int(11)"
    [] writeType = "TINYINT" -> "tinyint(4)"
    [] writeType = "SMALLINT" -> "smallint(6)"
    [] writeType = "BIGINT" -> "bigint(20)"
    [] writeType = "TINYINT UNSIGNED" -> "tinyint(3) unsigned"
    [] writeType = "SMALLINT UNSIGNED" -> "smallint(5) unsigned"
    [] writeType = "INT UNSIGNED" -> "int(10) unsigned"
    [] writeType = "BIGINT UNSIGNED" -> "bigint(20) unsigned"
    [] writeType = "FLOAT" -> "float"
    [] writeType = "DOUBLE" -> "double"
    [] writeType = "TEXT" -> "text"

\* The type texts of the model, each with its upper-case form, converted
\* once.
TypeTexts ==
  RawTypes \cup {ColumnType(getWriteSQLType([type |-> t])) : t \in MethodTypes}
UpperOf == [t \in TypeTexts |-> ToUpperFrom(t, 1)]

ToUpper(type) ==
  IF type \in TypeTexts THEN UpperOf[type] ELSE ToUpperFrom(type, 1)

\* ------------------------------------------------------ tables to reconcile
\* The field list of a sub-map's table (tswow-orm.ts:615-618).
DictFields(entry, dict) ==
  PrimaryKeys(entry.fields)
    \o <<Field("map_key", dict.keyType, TRUE, ""),
         Field("map_value", dict.valueType, FALSE,
               IF dict.valueType = "string" THEN "\"\"" ELSE "0")>>

\* The tableGeneration calls of writeTableCreationFile for one entry, in
\* order (tswow-orm.ts:612-621).
TablesOf(entry) ==
  <<[tableName |-> entry.className, fields |-> entry.fields]>>
    \o [i \in 1..Len(entry.dictionaries) |->
          [tableName |-> db_name(entry.className, entry.dictionaries[i].name),
           fields |-> DictFields(entry, entry.dictionaries[i])]]

\* A column of the live table: information_schema.COLUMNS gives its name and
\* type, KEY_COLUMN_USAGE whether it is part of a key.
Column(name, type, pk) == [name |-> name, type |-> type, pk |-> pk]

\* The columns a table of the model may have before a run: a column with a
\* declared name, of any reported type and key membership, or the undeclared
\* column "old" (the code reads neither its type nor its key membership).
ColumnsFor(fs) ==
  {Column(n, t, k) : n \in Range(Names(fs)), t \in RawTypes, k \in BOOLEAN}
    \cup {Column("old", "text", FALSE)}

\* The states of a table before a run: absent (no column), or up to MaxCols
\* columns of distinct names in any order.
Catalogs(fs) ==
  UNION {{c \in [1..n -> ColumnsFor(fs)] :
            \A i, j \in 1..n : i # j => c[i].name # c[j].name} :
         n \in 0..MaxCols}

\* -------------------------------------------------- the run's side effects
\* A call of ask(msg): the message's kind, its column and the type it names
\* (tswow-orm.ts:606-609).
Ask(kind, column, type) ==
  [ev |-> "ask", op |-> kind, col |-> column, type |-> type, fields |-> <<>>]

\* A statement handed to Query<db>: its kind, its column, the type it writes
\* and, for CREATE TABLE, the fields it lists.
Query(kind, column, type, fs) ==
  [ev |-> "query", op |-> kind, col |-> column, type |-> type, fields |-> fs]

\* What a statement does to the live table.
Execute(tbl, q) ==
  CASE q.op = "DropColumn" ->
         Filter(tbl, {c \in Range(tbl) : c.name # q.col})
    [] q.op = "AddColumn" ->
         Append(tbl, Column(q.col, ColumnType(q.type), FALSE))
    [] q.op = "ModifyColumnType" ->
         [i \in 1..Len(tbl) |->
            IF tbl[i].name = q.col
            THEN Column(q.col, ColumnType(q.type), tbl[i].pk)
            ELSE tbl[i]]
    [] q.op = "DropTableIfExists" -> <<>>
    [] q.op = "CreateTable" ->
         [i \in 1..Len(q.fields) |->
            Column(q.fields[i].name,
                   ColumnType(getWriteSQLType(q.fields[i])),
                   q.fields[i].isPrimaryKey)]
    [] OTHER -> tbl

RECURSIVE ExecuteAll(_, _, _)
ExecuteAll(tbl, evs, i) ==
  IF i > Len(evs) THEN tbl
  ELSE ExecuteAll(IF evs[i].ev = "query" THEN Execute(tbl, evs[i]) ELSE tbl,
                  evs, i + 1)

\* The run's state s = [should_create, found, log, table, brk] after the
\* calls evs were made in order.
Issue(s, evs) ==
  [s EXCEPT !.log = s.log \o evs, !.table = ExecuteAll(s.table, evs, 1)]

\* ------------------------------------------------------ tableGeneration
\* OnTypeMismatch without the `break` (a mutant: the scan goes on after a
\* key member's type change).
OnTypeMismatchNoBreak(x, column, type, was_pk, s) ==
  IF x.type = "string"
  THEN Issue(s, <<Ask("changed type", column, type),
                  Query("DropColumn", column, "", <<>>),
                  Query("AddColumn", column, "TEXT", <<>>)>>)
  ELSE IF type = "TEXT"
  THEN Issue(s, <<Ask("changed type", column, type),
                  Query("DropColumn", column, "", <<>>),
                  Query("AddColumn", column, getWriteSQLType(x), <<>>)>>)
  ELSE IF was_pk
  THEN [Issue(s, <<Ask("changed type of primary key", column, type)>>)
          EXCEPT !.should_create = TRUE]
  ELSE Issue(s, <<Ask("changed type", column, type),
                  Query("ModifyColumnType", x.name, getWriteSQLType(x), <<>>)>>)

\* OnTypeMismatch that consults was_pk before it compares the type with
\* "TEXT" (a mutant).
OnTypeMismatchKeyFirst(x, column, type, was_pk, s) ==
  IF x.type = "string"
  THEN Issue(s, <<Ask("changed type", column, type),
                  Query("DropColumn", column, "", <<>>),
                  Query("AddColumn", column, "TEXT", <<>>)>>)
  ELSE IF was_pk
  THEN [Issue(s, <<Ask("changed type of primary key", column, type)>>)
          EXCEPT !.should_create = TRUE, !.brk = TRUE]
  ELSE IF type = "TEXT"
  THEN Issue(s, <<Ask("changed type", column, type),
                  Query("DropColumn", column, "", <<>>),
                  Query("AddColumn", column, getWriteSQLType(x), <<>>)>>)
  ELSE Issue(s, <<Ask("changed type", column, type),
                  Query("ModifyColumnType", x.name, getWriteSQLType(x), <<>>)>>)

\* The body of `if (type != "<read type of x>")` (tswow-orm.ts:499-535).
OnTypeMismatch(x, column, type, was_pk, s) ==
  IF x.type = "string"
  THEN Issue(s, <<Ask("changed type", column, type),
                  Query("DropColumn", column, "", <<>>),
                  Query("AddColumn", column, "TEXT", <<>>)>>)
  ELSE IF type = "TEXT"
  THEN Issue(s, <<Ask("changed type", column, type),
                  Query("DropColumn", column, "", <<>>),
                  Query("AddColumn", column, getWriteSQLType(x), <<>>)>>)
  ELSE IF was_pk
  THEN [Issue(s, <<Ask("changed type of primary key", column, type)>>)
          EXCEPT !.should_create = TRUE, !.brk = TRUE]
  ELSE Issue(s, <<Ask("changed type", column, type),
                  Query("ModifyColumnType", x.name, getWriteSQLType(x), <<>>)>>)

\* OnUndeclaredColumn escalating to a rebuild (a mutant).
OnUndeclaredColumnRebuild(column, s) ==
  [Issue(s, <<Ask("was removed", column, ""),
              Query("DropColumn", column, "", <<>>)>>)
     EXCEPT !.should_create = TRUE]

\* OnUndeclaredColumn without its ask() (a mutant).
OnUndeclaredColumnSilent(column, s) ==
  Issue(s, <<Query("DropColumn", column, "", <<>>)>>)

\* OnUndeclaredColumn that announces the removal and keeps the column
\* (a mutant).
OnUndeclaredColumnKept(column, s) ==
  Issue(s, <<Ask("was removed", column, "")>>)

\* The final else of the chain: no field has the column's name
\* (tswow-orm.ts:539-545).
OnUndeclaredColumn(column, s) ==
  Issue(s, <<Ask("was removed", column, ""),
             Query("DropColumn", column, "", <<>>)>>)

\* ScanStep without `found_x = true` (a mutant).
ScanStepNoFound(fs, column, rawType, was_pk, s) ==
  LET matching == {i \in 1..Len(fs) : fs[i].name = column}
  IN IF matching = {}
     THEN OnUndeclaredColumn(column, s)
     ELSE LET x == fs[CHOOSE i \in matching : \A j \in matching : i <= j]
              type == ToUpper(rawType)
          IN IF type # getReadSQLType(x)
             THEN OnTypeMismatch(x, column, type, was_pk, s)
             ELSE s

\* One pass of the do/while body for the row (column, rawType) of the
\* catalog (tswow-orm.ts:468-548).
ScanStep(fs, column, rawType, was_pk, s) ==
  LET matching == {i \in 1..Len(fs) : fs[i].name = column}
  IN IF matching = {}
     THEN OnUndeclaredColumn(column, s)
     ELSE LET x == fs[CHOOSE i \in matching : \A j \in matching : i <= j]
              type == ToUpper(rawType)
              s1 == [s EXCEPT !.found = s.found \cup {x.name}]
          IN IF type # getReadSQLType(x)
             THEN OnTypeMismatch(x, column, type, was_pk, s1)
             ELSE s1

\* OnMissingField without the !should_create guard (a mutant).
OnMissingFieldUnguarded(x, s) ==
  IF x.name \notin s.found
  THEN IF x.isPrimaryKey
       THEN [Issue(s, <<Ask("new primary key missing", x.name, "")>>)
               EXCEPT !.should_create = TRUE]
       ELSE Issue(s, <<Query("AddColumn", x.name, getWriteSQLType(x), <<>>)>>)
  ELSE s

\* `if( !should_create && !found_x )` for one field x (tswow-orm.ts:552-562).
OnMissingField(x, s) ==
  IF ~s.should_create /\ x.name \notin s.found
  THEN IF x.isPrimaryKey
       THEN [Issue(s, <<Ask("new primary key missing", x.name, "")>>)
               EXCEPT !.should_create = TRUE]
       ELSE Issue(s, <<Query("AddColumn", x.name, getWriteSQLType(x), <<>>)>>)
  ELSE s

\* The fields.forEach after the loop (tswow-orm.ts:551-563).
RECURSIVE MissingFields(_, _, _)
MissingFields(fs, i, s) ==
  IF i > Len(fs) THEN s
  ELSE MissingFields(fs, i + 1, OnMissingField(fs[i], s))

\* CreateStatements without DROP TABLE IF EXISTS (a mutant).
CreateStatementsNoDrop(fs, create) ==
  IF create THEN <<Query("CreateTable", "", "", fs)>> ELSE <<>>

\* CreateStatements outside `if (should_create)` (a mutant).
CreateStatementsAlways(fs, create) ==
  <<Query("DropTableIfExists", "", "", <<>>),
    Query("CreateTable", "", "", fs)>>

\* The statements of `if (should_create)` (tswow-orm.ts:566-585).
CreateStatements(fs, create) ==
  IF create
  THEN <<Query("DropTableIfExists", "", "", <<>>),
         Query("CreateTable", "", "", fs)>>
  ELSE <<>>

\* The UPDATE ... WHERE x IS NULL statements that end the block
\* (tswow-orm.ts:586-589).
BackfillStatements(fs) ==
  [i \in 1..Len(NonPrimaryKeys(fs)) |->
     Query("BackfillDefault", NonPrimaryKeys(fs)[i].name, "", <<>>)]

RunState ==
  [should_create |-> should_create, found |-> found, log |-> log,
   table |-> table, brk |-> FALSE]

\* The block's first statements: should_create = true, the COLUMNS query,
\* and the first rows->GetRow() (tswow-orm.ts:449-466).
QueryCatalog ==
  /\ pc = "generated"
  /\ \E e \in 1..Len(entries) :
       \E t \in 1..Len(TablesOf(entries[e])) :
         \E cat \in Catalogs(TablesOf(entries[e])[t].fields) :
           /\ tableName' = TablesOf(entries[e])[t].tableName
           /\ fields' = TablesOf(entries[e])[t].fields
           /\ table' = cat
           /\ rows' = cat
           /\ should_create' = (cat = <<>>)
           /\ pc' = IF cat = <<>> THEN "create" ELSE "scan"
  /\ pos' = 1
  /\ found' = {}
  /\ log' = <<>>
  /\ UNCHANGED <<genVars, persistVars>>

\* ScanRow whose loop goes on after `break` (a mutant).
ScanRowNoBreak ==
  /\ pc = "scan"
  /\ LET column == rows[pos].name
         was_pk == \E i \in 1..Len(table) :
                     table[i].name = column /\ table[i].pk
         s == ScanStep(fields, column, rows[pos].type, was_pk, RunState)
     IN /\ should_create' = s.should_create
        /\ found' = s.found
        /\ log' = s.log
        /\ table' = s.table
        /\ pos' = pos + 1
        /\ pc' = IF pos = Len(rows) THEN "missing" ELSE "scan"
  /\ UNCHANGED <<genVars, persistVars, tableName, fields, rows>>

\* One iteration of the do/while loop, and its `while(rows->GetRow())`.
ScanRow ==
  /\ pc = "scan"
  /\ LET column == rows[pos].name
         was_pk == \E i \in 1..Len(table) :
                     table[i].name = column /\ table[i].pk
         s == ScanStep(fields, column, rows[pos].type, was_pk, RunState)
     IN /\ should_create' = s.should_create
        /\ found' = s.found
        /\ log' = s.log
        /\ table' = s.table
        /\ pos' = pos + 1
        /\ pc' = IF s.brk \/ pos = Len(rows) THEN "missing" ELSE "scan"
  /\ UNCHANGED <<genVars, persistVars, tableName, fields, rows>>

\* The checks of found_x after the loop.
MissingPass ==
  /\ pc = "missing"
  /\ LET s == MissingFields(fields, 1, RunState)
     IN /\ should_create' = s.should_create
        /\ log' = s.log
        /\ table' = s.table
  /\ pc' = "create"
  /\ UNCHANGED <<genVars, persistVars, tableName, fields, rows, pos, found>>

\* `if (should_create) { DROP TABLE IF EXISTS; CREATE TABLE }` and the
\* UPDATE statements after it.
CreateAndBackfill ==
  /\ pc = "create"
  /\ LET s == Issue(RunState, CreateStatements(fields, should_create)
                                \o BackfillStatements(fields))
     IN /\ log' = s.log
        /\ table' = s.table
  /\ pc' = "done"
  /\ UNCHANGED <<genVars, persistVars, tableName, fields, rows, pos,
                 should_create, found>>

Init ==
  /\ pc = "declare"
  /\ entries = <<>>
  /\ emitted = <<>>
  /\ tableName = ""
  /\ fields = <<>>
  /\ table = <<>>
  /\ rows = <<>>
  /\ pos = 1
  /\ should_create = TRUE
  /\ found = {}
  /\ log = <<>>
  /\ dbRows = {}
  /\ dbMap = <<>>
  /\ obj = [live |-> FALSE, vals |-> <<>>, dicts |-> <<>>]
  /\ last = [op |-> "none", dict |-> 0, key |-> 0, flushed |-> FALSE,
            recent |-> <<>>]

Next ==
  \/ handleClass
  \/ QueryCatalog
  \/ ScanRow
  \/ MissingPass
  \/ CreateAndBackfill

Spec == Init /\ [][Next]_vars

\* ------------------------------------------------- reading a finished run
\* The statements the run executed, in order: the plan it materialized.
Plan == Filter(log, {e \in Range(log) : e.ev = "query"})
\* The calls of the Confirmation Gate, in order.
Asks == Filter(log, {e \in Range(log) : e.ev = "ask"})

\* rebuildTriggered: the run decided to drop and recreate an existing table.
rebuildTriggered == should_create /\ rows # <<>>

Declared(name) == \E i \in 1..Len(fields) : fields[i].name = name
Observed(name) == \E j \in 1..Len(rows) : rows[j].name = name
IndexOfField(name) == CHOOSE i \in 1..Len(fields) : fields[i].name = name
FieldNamed(name) == fields[IndexOfField(name)]

\* The observed column carries the read type of the declared field.
CarriesReadType(o) == ToUpper(o.type) = getReadSQLType(FieldNamed(o.name))

\* The observation is a key member whose type changed, in the one way that
\* escalates to a rebuild: a non-string field, an observed type other than
\* "TEXT".
KeyTypeChanged(o) ==
  /\ Declared(o.name)
  /\ o.pk
  /\ FieldNamed(o.name).type # "string"
  /\ ToUpper(o.type) \notin {getReadSQLType(FieldNamed(o.name)), "TEXT"}

ScanAborted == \E j \in 1..Len(rows) : KeyTypeChanged(rows[j])
FirstAbort ==
  CHOOSE j \in 1..Len(rows) :
    KeyTypeChanged(rows[j]) /\ \A k \in 1..(j - 1) : ~KeyTypeChanged(rows[k])

\* [DropTableIfExists, CreateTable(fields), BackfillDefault(f) for each
\* non-primary-key f].
RebuildPlan ==
  <<Query("DropTableIfExists", "", "", <<>>),
    Query("CreateTable", "", "", fields)>>
    \o [i \in 1..Len(NonPrimaryKeys(fields)) |->
          Query("BackfillDefault", NonPrimaryKeys(fields)[i].name, "", <<>>)]

BackfillPlan ==
  [i \in 1..Len(NonPrimaryKeys(fields)) |->
     Query("BackfillDefault", NonPrimaryKeys(fields)[i].name, "", <<>>)]

Count(s, keep) == Len(Filter(s, keep))

\* ------------------------------------------------------------------ C1
\* C1 as stated: on an empty catalog the plan is exactly [CreateTable(fields)],
\* rebuildTriggered = false and the gate is not invoked.
C1_OnlyCreateTable ==
  (pc = "done" /\ rows = <<>>) =>
    /\ Plan = <<Query("CreateTable", "", "", fields)>>
    /\ ~rebuildTriggered
    /\ Asks = <<>>

\* C1 (amended): on an empty catalog the plan is exactly [DropTableIfExists,
\* CreateTable(fields), BackfillDefault(f) for each non-primary-key f], with
\* rebuildTriggered = false and no call of the Confirmation Gate; the table
\* that results is the one CreateTable(fields) defines.
C1_EmptyCatalogPlan ==
  (pc = "done" /\ rows = <<>>) =>
    /\ Plan = RebuildPlan
    /\ ~rebuildTriggered
    /\ Asks = <<>>
    /\ Names(table) = Names(fields)

C1_Witness ==
  /\ pc = "done"
  /\ rows = <<>>
  /\ Len(NonPrimaryKeys(fields)) > 0
  /\ Len(Plan) >= 3

\* ------------------------------------------------------------------ C2
\* Some declared primary-key field is observed as a key member with a raw
\* type other than its read type.
C2_KeyDrifted ==
  \E j \in 1..Len(rows) :
    /\ Declared(rows[j].name)
    /\ FieldNamed(rows[j].name).isPrimaryKey
    /\ rows[j].pk
    /\ ~CarriesReadType(rows[j])

\* C2 as stated: then the plan is exactly the rebuild plan, whatever the
\* other columns are.
C2_ExactlyRebuild ==
  (pc = "done" /\ C2_KeyDrifted) => (Plan = RebuildPlan /\ rebuildTriggered)

\* C2 (amended): if some declared non-string primary-key field is observed
\* as a key member with a type that is neither its read type nor "TEXT",
\* then rebuildTriggered = true and the plan ends with exactly the rebuild
\* plan; the steps decided for the observations before the first key-member
\* type change were executed as they were decided and precede it, and no
\* step exists for that observation, for a later one or for a missing field.
C2_RebuildAfterScannedPrefix ==
  (pc = "done" /\ \E j \in 1..Len(rows) :
      KeyTypeChanged(rows[j]) /\ FieldNamed(rows[j].name).isPrimaryKey) =>
    LET n == Len(Plan) - Len(RebuildPlan)
    IN /\ rebuildTriggered
       /\ n >= 0
       /\ SubSeq(Plan, n + 1, Len(Plan)) = RebuildPlan
       /\ \A i \in 1..n :
            /\ Plan[i].op \in {"DropColumn", "AddColumn", "ModifyColumnType"}
            /\ \E k \in 1..(FirstAbort - 1) : rows[k].name = Plan[i].col

C2_Witness ==
  /\ pc = "done"
  /\ \E j \in 1..Len(rows) :
       KeyTypeChanged(rows[j]) /\ FieldNamed(rows[j].name).isPrimaryKey
  /\ Len(Plan) > Len(RebuildPlan)

\* ------------------------------------------------------------------ C3
\* The declared fields with no observed column, in declaration order.
MissingFieldsOf(isKey) ==
  Filter(fields, {f \in Range(fields) :
                    f.isPrimaryKey = isKey /\ ~Observed(f.name)})

\* The AddColumn steps of the plan that add a missing field.
MissingAdds ==
  Filter(Plan, {q \in Range(Plan) : q.op = "AddColumn" /\ ~Observed(q.col)})

\* C3 as stated: every missing non-primary-key field yields AddColumn with
\* its write type, and every missing primary-key field forces a rebuild.
C3_AlwaysAddColumn ==
  (pc = "done" /\ rows # <<>>) =>
    /\ \A f \in Range(MissingFieldsOf(FALSE)) :
         Query("AddColumn", f.name, getWriteSQLType(f), <<>>) \in Range(Plan)
    /\ (MissingFieldsOf(TRUE) # <<>> => rebuildTriggered)

\* A rebuild was already decided when the missing-field pass reaches f: the
\* scan was aborted, or a primary-key field declared before f is missing.
RebuildDecidedBefore(f) ==
  \/ ScanAborted
  \/ \E g \in Range(MissingFieldsOf(TRUE)) :
       IndexOfField(g.name) < IndexOfField(f.name)

\* C3 (amended): on a non-empty catalog, the missing non-primary-key fields
\* that are reached before a rebuild is decided yield, in declaration order,
\* one AddColumn each with the field's write type and without a confirm call;
\* a missing non-primary-key field reached after the rebuild was decided
\* yields no AddColumn (CreateTable creates its column); every missing
\* primary-key field forces rebuildTriggered = true.
C3_AddColumnUnlessRebuildDecided ==
  (pc = "done" /\ rows # <<>>) =>
    LET reached == Filter(MissingFieldsOf(FALSE),
                          {f \in Range(fields) : ~RebuildDecidedBefore(f)})
    IN /\ MissingAdds =
            [i \in 1..Len(reached) |->
               Query("AddColumn", reached[i].name,
                     getWriteSQLType(reached[i]), <<>>)]
       /\ \A a \in Range(Asks) :
            a.op = "new primary key missing" \/ Observed(a.col)
       /\ (MissingFieldsOf(TRUE) # <<>> => rebuildTriggered)

C3_Witness ==
  /\ pc = "done"
  /\ rows # <<>>
  /\ MissingAdds # <<>>
  /\ MissingFieldsOf(TRUE) # <<>>

\* ------------------------------------------------------------------ C4
Undeclared == {j \in 1..Len(rows) : ~Declared(rows[j].name)}
DropOf(column) == Query("DropColumn", column, "", <<>>)

\* A rebuild has a cause among the declared fields: a key member's type
\* changed, or a primary-key field has no column.
RebuildCause == ScanAborted \/ MissingFieldsOf(TRUE) # <<>>

\* C4 as stated: every observed column that matches no declared field yields
\* a DropColumn step, and never by itself a rebuild.
C4_AlwaysDropColumn ==
  pc = "done" =>
    /\ \A j \in Undeclared : DropOf(rows[j].name) \in Range(Plan)
    /\ (rebuildTriggered => RebuildCause)

\* C4 (amended): every undeclared observed column that the scan reaches (it
\* does not come after the key-member type change that aborts the scan)
\* yields one confirm call and one DropColumn step; one that comes after the
\* abort yields none (the rebuild drops it with the table); an undeclared
\* column never causes a rebuild: rebuildTriggered holds exactly when a key
\* member's type changed or a declared primary-key field has no column.
C4_DropColumnWhenScanned ==
  pc = "done" =>
    /\ \A j \in Undeclared :
         LET reached == ~(ScanAborted /\ FirstAbort < j)
         IN /\ Count(Plan, {DropOf(rows[j].name)}) = (IF reached THEN 1 ELSE 0)
            /\ Count(Asks, {Ask("was removed", rows[j].name, "")})
                 = (IF reached THEN 1 ELSE 0)
    /\ (rows # <<>> => (rebuildTriggered <=> RebuildCause))

C4_Witness ==
  /\ pc = "done"
  /\ Undeclared # {}
  /\ ~rebuildTriggered
  /\ \A j \in Undeclared : DropOf(rows[j].name) \in Range(Plan)
  /\ Len(rows) > 1

\* ------------------------------------------------------------------ C5
\* Every observed column matches a declared field by name and carries its
\* read type, and no declared primary-key field is missing.
C5_InSync ==
  /\ \A j \in 1..Len(rows) : Declared(rows[j].name) /\ CarriesReadType(rows[j])
  /\ MissingFieldsOf(TRUE) = <<>>

\* C5 as stated: then the plan is empty and rebuildTriggered = false.
C5_EmptyPlan ==
  (pc = "done" /\ C5_InSync) => (Plan = <<>> /\ ~rebuildTriggered)

\* C5 (amended): then rebuildTriggered = false, the Confirmation Gate is not
\* invoked and no destructive step is produced: the plan is exactly AddColumn
\* (write type) for each missing non-primary-key field in declaration order,
\* followed by BackfillDefault(f) for each non-primary-key field f; it is
\* empty only when every field is a primary key.
C5_OnlyAddAndBackfill ==
  (pc = "done" /\ C5_InSync) =>
    /\ ~rebuildTriggered
    /\ Asks = <<>>
    /\ Plan = [i \in 1..Len(MissingFieldsOf(FALSE)) |->
                 Query("AddColumn", MissingFieldsOf(FALSE)[i].name,
                       getWriteSQLType(MissingFieldsOf(FALSE)[i]), <<>>)]
              \o BackfillPlan

C5_Witness ==
  /\ pc = "done"
  /\ C5_InSync
  /\ Len(rows) = Len(fields)
  /\ Len(rows) > 1
  /\ Plan # <<>>

\* ------------------------------------------------------------------ C6
RebuildAsks ==
  {a \in Range(Asks) :
     a.op \in {"changed type of primary key", "new primary key missing"}}

\* The destructive steps of a run: DropColumn, the AddColumn that replaces a
\* dropped column, ModifyColumnType and, when the table existed,
\* DropTableIfExists and CreateTable.
Destructive ==
  {q \in Range(Plan) :
     \/ q.op \in {"DropColumn", "ModifyColumnType"}
     \/ q.op = "AddColumn" /\ Observed(q.col)
     \/ q.op \in {"DropTableIfExists", "CreateTable"} /\ rows # <<>>}

\* C6 as stated: as many confirm calls as destructive steps.
C6_OncePerStep ==
  pc = "done" => Len(Asks) = Count(Plan, Destructive)

\* C6 (amended): the gate is invoked once per destructive decision, not once
\* per statement: one call immediately before each DropColumn (the AddColumn
\* that replaces the column shares that call), one immediately before each
\* ModifyColumnType, and exactly one for a rebuild (DropTableIfExists and
\* CreateTable share it); no call is made for AddColumn of a missing field,
\* for BackfillDefault or for the creation of an absent table.
C6_OncePerDecision ==
  pc = "done" =>
    /\ Len(Asks) =
         Count(Plan, {q \in Range(Plan) :
                        q.op \in {"DropColumn", "ModifyColumnType"}})
         + (IF rebuildTriggered THEN 1 ELSE 0)
    /\ Cardinality(RebuildAsks) = (IF rebuildTriggered THEN 1 ELSE 0)
    /\ \A i \in 1..Len(log) :
         /\ (log[i].ev = "query"
               /\ log[i].op \in {"DropColumn", "ModifyColumnType"})
              => (i > 1 /\ log[i - 1].ev = "ask" /\ log[i - 1].col = log[i].col)
         /\ (log[i].ev = "ask" /\ log[i] \notin RebuildAsks)
              => (i < Len(log) /\ log[i + 1].ev = "query"
                    /\ log[i + 1].op \in {"DropColumn", "ModifyColumnType"})

C6_Witness ==
  /\ pc = "done"
  /\ Len(Asks) >= 2
  /\ Count(Plan, Destructive) > Len(Asks)
  /\ \E q \in Range(Plan) : q.op = "ModifyColumnType"

\* ------------------------------------------------------------------ C7
\* C7: in a run against an existing table, a statement that can lose data
\* (DropColumn, ModifyColumnType, DropTableIfExists) is executed only after
\* the gate was called for it in the same run, and every step a call
\* announces is executed by the end of the run.
C7_AskedBeforeDataLoss ==
  /\ \A i \in 1..Len(log) :
       /\ (log[i].ev = "query"
             /\ log[i].op \in {"DropColumn", "ModifyColumnType"})
            => \E k \in 1..(i - 1) :
                 log[k].ev = "ask" /\ log[k].col = log[i].col
       /\ (log[i].ev = "query" /\ log[i].op = "DropTableIfExists"
             /\ rows # <<>>)
            => \E k \in 1..(i - 1) : log[k] \in RebuildAsks
  /\ pc = "done" =>
       \A i \in 1..Len(log) :
         log[i].ev = "ask" =>
           \E k \in (i + 1)..Len(log) :
             /\ log[k].ev = "query"
             /\ IF log[i] \in RebuildAsks
                THEN log[k].op = "DropTableIfExists"
                ELSE /\ log[k].op \in {"DropColumn", "ModifyColumnType"}
                     /\ log[k].col = log[i].col

C7_Witness ==
  /\ pc = "done"
  /\ rebuildTriggered
  /\ \E q \in Range(Plan) : q.op = "DropColumn"

\* ------------------------------------------------------------------ C9
UpdateColumns(q) == [i \in 1..Len(q.updates) |-> q.updates[i].column]
ValueFields(q) == [i \in 1..Len(q.values) |-> q.values[i].field]

\* C9 as stated: the save statement inserts every field in declaration
\* order, and its ON DUPLICATE KEY UPDATE clause assigns exactly the
\* non-primary-key fields.
C9_UpdateOnlyNonKeys ==
  \A e \in 1..Len(emitted) :
    /\ ValueFields(emitted[e].saveQuery) = Names(entries[e].fields)
    /\ UpdateColumns(emitted[e].saveQuery)
         = Names(NonPrimaryKeys(entries[e].fields))

\* C9 (amended): the save statement inserts every declared field
\* positionally in declaration order, and its ON DUPLICATE KEY UPDATE clause
\* assigns every declared field, the primary-key fields included, each to its
\* own value, in declaration order; string values are quoted in both lists.
C9_UpdateEveryField ==
  \A e \in 1..Len(emitted) :
    LET q == emitted[e].saveQuery
        fs == entries[e].fields
    IN /\ ValueFields(q) = Names(fs)
       /\ UpdateColumns(q) = Names(fs)
       /\ \A i \in 1..Len(fs) :
            /\ q.updates[i].field = fs[i].name
            /\ q.updates[i].quoted = (fs[i].type = "string")
            /\ q.values[i].quoted = (fs[i].type = "string")

C9_Witness ==
  \E e \in 1..Len(emitted) :
    /\ Len(entries[e].fields) > 1
    /\ NonPrimaryKeys(entries[e].fields) # <<>>
    /\ Len(emitted[e].saveQuery.updates) = Len(entries[e].fields)

\* ============================================================ persistence
\* The entity class whose emitted operations the application runs: a
\* primary key, a non-key field and one TSDBDict sub-map.
PersistDecl ==
  <<[kind |-> "scalar", type |-> "uint32", isPrimaryKey |-> TRUE,
     hasInit |-> TRUE, keyType |-> "", valueType |-> ""],
    [kind |-> "scalar", type |-> "uint32", isPrimaryKey |-> FALSE,
     hasInit |-> TRUE, keyType |-> "", valueType |-> ""],
    [kind |-> "dict", type |-> "TSDBDict", isPrimaryKey |-> FALSE,
     hasInit |-> TRUE, keyType |-> "uint32", valueType |-> "uint32"]>>
PersistEntry == Entry("Player", "world", PersistDecl)

\* The values the application uses: of a primary key, of a non-key field or
\* map entry, and of a map key.
Ids == {1}
Values == {0, 1}
MapKeys == 1..MaxKeys

\* ----------------------------------------------------------- TSDBDict
\* A sub-map instance: its entries (value and _dirty flag per key) and its
\* set of erased keys, as save() iterates them (tswow-orm.ts:261-293).
EmptyDict == [map |-> <<>>, erases |-> {}]
DirtyKeys(d) == {k \in DOMAIN d.map : d.map[k].dirty}
ErasedKeys(d) == d.erases
Contents(d) == [k \in DOMAIN d.map |-> d.map[k].value]

\* set(k, v): the key is written, marked dirty, and no longer erased.
DictSet(d, k, v) ==
  [map |-> (k :> [value |-> v, dirty |-> TRUE]) @@ d.map,
   erases |-> d.erases \ {k}]

\* erase(k): the key is removed, marked erased, and no longer dirty.
DictErase(d, k) ==
  [map |-> [j \in (DOMAIN d.map) \ {k} |-> d.map[j]],
   erases |-> d.erases \cup {k}]

\* set_silent(k, v): the key is written without dirty tracking.
DictSetSilent(d, k, v) ==
  [map |-> (k :> [value |-> v, dirty |-> FALSE]) @@ d.map,
   erases |-> d.erases]

\* clear(): the delta state becomes clean, the entries stay.
DictClear(d) ==
  [map |-> [k \in DOMAIN d.map |-> [value |-> d.map[k].value, dirty |-> FALSE]],
   erases |-> {}]

\* ------------------------------------------------------ entity instances
NoObject == [live |-> FALSE, vals |-> <<>>, dicts |-> <<>>]

\* A new instance: every field at its default, every sub-map empty; the
\* application then assigns the primary key.
NewObject(entry, id) ==
  [live |-> TRUE,
   vals |-> [i \in 1..Len(entry.fields) |->
               IF entry.fields[i].isPrimaryKey THEN id ELSE 0],
   dicts |-> [d \in 1..Len(entry.dictionaries) |-> EmptyDict]]

\* The values of the primary-key fields, in declaration order.
RECURSIVE PkValsFrom(_, _, _)
PkValsFrom(entry, vals, i) ==
  IF i > Len(entry.fields) THEN <<>>
  ELSE (IF entry.fields[i].isPrimaryKey THEN <<vals[i]>> ELSE <<>>)
         \o PkValsFrom(entry, vals, i + 1)
PkVals(entry, vals) == PkValsFrom(entry, vals, 1)

FieldIndex(entry, name) ==
  CHOOSE i \in 1..Len(entry.fields) : entry.fields[i].name = name

\* A set of integers as the sequence an ordered iteration visits.
RECURSIVE InOrder(_)
InOrder(S) ==
  IF S = {} THEN <<>>
  ELSE LET m == CHOOSE x \in S : \A y \in S : x <= y
       IN <<m>> \o InOrder(S \ {m})

\* DictStatements whose upsert loop does not skip the clean entries
\* (a mutant).
DictStatementsAllKeys(entry, o, d) ==
  [i \in 1..Cardinality(DOMAIN o.dicts[d].map) |->
     [op |-> "map_upsert", dict |-> d,
      table |-> db_name(entry.className, entry.dictionaries[d].name),
      row |-> <<PkVals(entry, o.vals), InOrder(DOMAIN o.dicts[d].map)[i],
                o.dicts[d].map[InOrder(DOMAIN o.dicts[d].map)[i]].value>>]]
  \o
  [i \in 1..Cardinality(ErasedKeys(o.dicts[d])) |->
     [op |-> "map_delete", dict |-> d,
      table |-> db_name(entry.className, entry.dictionaries[d].name),
      row |-> <<PkVals(entry, o.vals), InOrder(ErasedKeys(o.dicts[d]))[i], 0>>]]

\* DictStatements without the loop over the erase list (a mutant).
DictStatementsNoDeletes(entry, o, d) ==
  [i \in 1..Cardinality(DirtyKeys(o.dicts[d])) |->
     [op |-> "map_upsert", dict |-> d,
      table |-> db_name(entry.className, entry.dictionaries[d].name),
      row |-> <<PkVals(entry, o.vals), InOrder(DirtyKeys(o.dicts[d]))[i],
                o.dicts[d].map[InOrder(DirtyKeys(o.dicts[d]))[i]].value>>]]

\* ------------------------------------------------------------- save()
\* The statements of save(), in order: the entity's upsert, then per sub-map
\* an upsert for every dirty entry and a DELETE for every erased key
\* (tswow-orm.ts:258-292).
DictStatements(entry, o, d) ==
  [i \in 1..Cardinality(DirtyKeys(o.dicts[d])) |->
     [op |-> "map_upsert", dict |-> d,
      table |-> db_name(entry.className, entry.dictionaries[d].name),
      row |-> <<PkVals(entry, o.vals), InOrder(DirtyKeys(o.dicts[d]))[i],
                o.dicts[d].map[InOrder(DirtyKeys(o.dicts[d]))[i]].value>>]]
  \o
  [i \in 1..Cardinality(ErasedKeys(o.dicts[d])) |->
     [op |-> "map_delete", dict |-> d,
      table |-> db_name(entry.className, entry.dictionaries[d].name),
      row |-> <<PkVals(entry, o.vals), InOrder(ErasedKeys(o.dicts[d]))[i], 0>>]]

RECURSIVE AllDictStatements(_, _, _)
AllDictStatements(entry, o, d) ==
  IF d > Len(entry.dictionaries) THEN <<>>
  ELSE DictStatements(entry, o, d) \o AllDictStatements(entry, o, d + 1)

SaveStatements(entry, o) ==
  <<[op |-> "upsert", dict |-> 0, table |-> saveQuery(entry).table,
     row |-> o.vals]>>
    \o AllDictStatements(entry, o, 1)

\* INSERT ... VALUES (...) ON DUPLICATE KEY UPDATE ...: the row with the
\* same key gets the listed columns assigned, else the values are inserted
\* by position.
UpsertRow(entry, tbl, vals) ==
  LET q == saveQuery(entry)
      new == [i \in 1..Len(q.values) |->
                vals[FieldIndex(entry, q.values[i].field)]]
      dup == {r \in tbl : PkVals(entry, r) = PkVals(entry, new)}
      assigned(r) ==
        [i \in 1..Len(r) |->
           IF \E u \in 1..Len(q.updates) :
                q.updates[u].column = entry.fields[i].name
           THEN vals[FieldIndex(entry,
                  q.updates[CHOOSE u \in 1..Len(q.updates) :
                    q.updates[u].column = entry.fields[i].name].field)]
           ELSE r[i]]
  IN IF dup = {} THEN tbl \cup {new}
     ELSE (tbl \ dup) \cup {assigned(r) : r \in dup}

\* What one statement of save() or remove() does to the database
\* db = [rows, map].
ExecutePersist(entry, db, st) ==
  CASE st.op = "upsert" ->
         [db EXCEPT !.rows = UpsertRow(entry, db.rows, st.row)]
    [] st.op = "map_upsert" ->
         [db EXCEPT !.map[st.dict] =
            {r \in @ : ~(r[1] = st.row[1] /\ r[2] = st.row[2])}
              \cup {st.row}]
    [] st.op = "map_delete" ->
         [db EXCEPT !.map[st.dict] =
            {r \in @ : ~(r[1] = st.row[1] /\ r[2] = st.row[2])}]
    [] st.op = "delete" ->
         [db EXCEPT !.rows =
            {r \in @ : PkVals(entry, r) # PkVals(entry, st.row)}]

RECURSIVE ExecuteAllPersist(_, _, _, _)
ExecuteAllPersist(entry, db, sts, i) ==
  IF i > Len(sts) THEN db
  ELSE ExecuteAllPersist(entry, ExecutePersist(entry, db, sts[i]), sts, i + 1)

\* save() without the trailing clear().
SaveObjectNoClear(entry, o) == o

\* The instance after save(): `<map>->clear()` ran for every sub-map
\* (tswow-orm.ts:293).
SaveObject(entry, o) ==
  [o EXCEPT !.dicts = [d \in 1..Len(o.dicts) |-> DictClear(o.dicts[d])]]

\* ------------------------------------------------------------- Load()
\* The instance Load builds from one row: every field decoded from the
\* column at its index, every sub-map filled by set_silent from the rows of
\* its table that carry the instance's primary key; the map key is read at
\* index pk_count, the value at pk_count + 1 (tswow-orm.ts:313-373).
RECURSIVE FillSilent(_, _)
FillSilent(d, mapRows) ==
  IF mapRows = {} THEN d
  ELSE LET r == CHOOSE x \in mapRows : TRUE
       IN FillSilent(DictSetSilent(d, r[2], r[3]), mapRows \ {r})

LoadObject(entry, db, row) ==
  LET vals == [i \in 1..Len(entry.fields) |-> row[i]]
  IN [live |-> TRUE, vals |-> vals,
      dicts |-> [d \in 1..Len(entry.dictionaries) |->
                   FillSilent(EmptyDict,
                              {r \in db.map[d] : r[1] = PkVals(entry, vals)})]]

\* Load(query) for the query text "<first primary key> = id"
\* (tswow-orm.ts:307-378).
Load(entry, db, id) ==
  {LoadObject(entry, db, row) :
     row \in {r \in db.rows : PkVals(entry, r)[1] = id}}

\* ------------------------------------------------- the application's steps
DB == [rows |-> dbRows, map |-> dbMap]
TheEntry == entries[1]

\* What the application did to each key of each sub-map since the flush
\* before: nothing, set(k, v) last, or erase(k) last. The record is kept
\* through a save and starts anew with the first set or erase after it.
NoRecent(entry) ==
  [d \in 1..Len(entry.dictionaries) |-> [k \in MapKeys |-> <<"none", 0>>]]
Unflushed == IF last.flushed THEN NoRecent(TheEntry) ELSE last.recent

Construct ==
  /\ pc = "runtime"
  /\ \E id \in Ids : obj' = NewObject(TheEntry, id)
  /\ last' = [op |-> "new", dict |-> 0, key |-> 0, flushed |-> FALSE,
             recent |-> NoRecent(TheEntry)]
  /\ UNCHANGED <<pc, genVars, runVars, dbRows, dbMap>>

SetField ==
  /\ pc = "runtime"
  /\ obj.live
  /\ \E i \in 1..Len(TheEntry.fields), v \in Values :
       /\ ~TheEntry.fields[i].isPrimaryKey
       /\ obj' = [obj EXCEPT !.vals[i] = v]
  /\ last' = [last EXCEPT !.op = "assign", !.dict = 0, !.key = 0]
  /\ UNCHANGED <<pc, genVars, runVars, dbRows, dbMap>>

MapSet ==
  /\ pc = "runtime"
  /\ obj.live
  /\ \E d \in 1..Len(obj.dicts), k \in MapKeys, v \in Values :
       /\ obj' = [obj EXCEPT !.dicts[d] = DictSet(@, k, v)]
       /\ last' = [op |-> "set", dict |-> d, key |-> k, flushed |-> FALSE,
                   recent |-> [Unflushed EXCEPT ![d][k] = <<"set", v>>]]
  /\ UNCHANGED <<pc, genVars, runVars, dbRows, dbMap>>

MapErase ==
  /\ pc = "runtime"
  /\ obj.live
  /\ \E d \in 1..Len(obj.dicts), k \in MapKeys :
       /\ obj' = [obj EXCEPT !.dicts[d] = DictErase(@, k)]
       /\ last' = [op |-> "erase", dict |-> d, key |-> k, flushed |-> FALSE,
                   recent |-> [Unflushed EXCEPT ![d][k] = <<"erase", 0>>]]
  /\ UNCHANGED <<pc, genVars, runVars, dbRows, dbMap>>

\* save() (tswow-orm.ts:256-295)
Save ==
  /\ pc = "runtime"
  /\ obj.live
  /\ LET db == ExecuteAllPersist(TheEntry, DB, SaveStatements(TheEntry, obj), 1)
     IN /\ dbRows' = db.rows
        /\ dbMap' = db.map
  /\ obj' = SaveObject(TheEntry, obj)
  /\ last' = [last EXCEPT !.op = "save", !.dict = 0, !.key = 0,
                          !.flushed = TRUE]
  /\ UNCHANGED <<pc, genVars, runVars>>

\* remove() that also deletes the instance's rows of every sub-map table.
RemoveStatementsCascade(entry, o) ==
  <<[op |-> "delete", dict |-> 0, table |-> removeQuery(entry).table,
     row |-> o.vals]>>
    \o [i \in 1..(Len(entry.dictionaries) * MaxKeys) |->
          [op |-> "map_delete", dict |-> ((i - 1) \div MaxKeys) + 1,
           table |-> db_name(entry.className,
                             entry.dictionaries[((i - 1) \div MaxKeys) + 1].name),
           row |-> <<PkVals(entry, o.vals), ((i - 1) % MaxKeys) + 1, 0>>]]

\* The statements of remove(): removeQuery() alone (tswow-orm.ts:297-300).
RemoveStatements(entry, o) ==
  <<[op |-> "delete", dict |-> 0, table |-> removeQuery(entry).table,
     row |-> o.vals]>>

\* remove() (tswow-orm.ts:297-300)
Remove ==
  /\ pc = "runtime"
  /\ obj.live
  /\ LET db == ExecuteAllPersist(TheEntry, DB, RemoveStatements(TheEntry, obj), 1)
     IN /\ dbRows' = db.rows
        /\ dbMap' = db.map
  /\ last' = [last EXCEPT !.op = "remove", !.dict = 0, !.key = 0]
  /\ UNCHANGED <<pc, genVars, runVars, obj>>

\* Load(query): the application goes on with an instance of the result.
LoadInstance ==
  /\ pc = "runtime"
  /\ \E id \in Ids :
       /\ Load(TheEntry, DB, id) # {}
       /\ obj' \in Load(TheEntry, DB, id)
  /\ last' = [op |-> "load", dict |-> 0, key |-> 0, flushed |-> FALSE,
             recent |-> NoRecent(TheEntry)]
  /\ UNCHANGED <<pc, genVars, runVars, dbRows, dbMap>>

\* The generated class is in use: the tables exist and are empty.
InitPersist ==
  /\ pc = "runtime"
  /\ entries = <<PersistEntry>>
  /\ emitted = <<Emit(PersistEntry)>>
  /\ tableName = ""
  /\ fields = <<>>
  /\ table = <<>>
  /\ rows = <<>>
  /\ pos = 1
  /\ should_create = TRUE
  /\ found = {}
  /\ log = <<>>
  /\ dbRows = {}
  /\ dbMap = [d \in 1..Len(PersistEntry.dictionaries) |-> {}]
  /\ obj = NoObject
  /\ last = [op |-> "none", dict |-> 0, key |-> 0, flushed |-> FALSE,
            recent |-> <<>>]

NextPersist ==
  \/ Construct
  \/ SetField
  \/ MapSet
  \/ MapErase
  \/ Save
  \/ Remove
  \/ LoadInstance

SpecPersist == InitPersist /\ [][NextPersist]_vars

\* ------------------------------------------------- claims on persistence
\* The instance save() was just called on, and what Load returns for its
\* primary key.
Saved == obj
Loaded == Load(TheEntry, DB, PkVals(TheEntry, Saved.vals)[1])

\* C8: save followed immediately by Load on the saved entity's primary key
\* returns one entity whose scalar fields equal the saved ones, whose every
\* sub-map has exactly the saved sub-map's key/value contents, and whose
\* dirty and erased sets are empty.
C8_RoundTrip ==
  last.op = "save" =>
    /\ Cardinality(Loaded) = 1
    /\ \A o \in Loaded :
         /\ o.vals = Saved.vals
         /\ \A d \in 1..Len(Saved.dicts) :
              /\ DOMAIN o.dicts[d].map = DOMAIN Saved.dicts[d].map
              /\ \A k \in DOMAIN Saved.dicts[d].map :
                   o.dicts[d].map[k].value = Saved.dicts[d].map[k].value
              /\ DirtyKeys(o.dicts[d]) = {}
              /\ ErasedKeys(o.dicts[d]) = {}

\* C10: in every reachable state of every sub-map the dirty and the erased
\* keys are disjoint; right after save() both are empty; right after set(k)
\* k is dirty and not erased; right after erase(k) k is erased and not dirty.
C10_DeltaState ==
  obj.live =>
    /\ \A d \in 1..Len(obj.dicts) :
         /\ DirtyKeys(obj.dicts[d]) \cap ErasedKeys(obj.dicts[d]) = {}
         /\ last.op = "save" =>
              DirtyKeys(obj.dicts[d]) = {} /\ ErasedKeys(obj.dicts[d]) = {}
    /\ last.op = "set" =>
         /\ last.key \in DirtyKeys(obj.dicts[last.dict])
         /\ last.key \notin ErasedKeys(obj.dicts[last.dict])
    /\ last.op = "erase" =>
         /\ last.key \in ErasedKeys(obj.dicts[last.dict])
         /\ last.key \notin DirtyKeys(obj.dicts[last.dict])

\* A sub-map that was flushed before now holds a dirty key and, after the
\* erase just made, an erased key.
C10_Witness ==
  /\ obj.live
  /\ last.op = "erase"
  /\ dbMap[last.dict] # {}
  /\ DirtyKeys(obj.dicts[last.dict]) # {}
  /\ last.key \in ErasedKeys(obj.dicts[last.dict])

\* ===================================================== a save that fails
\* An entity class with two sub-maps, and one new instance of it.
PartialDecl ==
  <<[kind |-> "scalar", type |-> "uint32", isPrimaryKey |-> TRUE,
     hasInit |-> TRUE, keyType |-> "", valueType |-> ""],
    [kind |-> "dict", type |-> "TSDBDict", isPrimaryKey |-> FALSE,
     hasInit |-> TRUE, keyType |-> "uint32", valueType |-> "uint32"],
    [kind |-> "dict", type |-> "TSDBDict", isPrimaryKey |-> FALSE,
     hasInit |-> TRUE, keyType |-> "uint32", valueType |-> "uint32"]>>
PartialEntry == Entry("Player", "world", PartialDecl)

\* save() whose statement number failAt fails and ends the run there: the
\* statements before it were executed, and clear() ran for every sub-map
\* whose two loops were completed before it (tswow-orm.ts:258-293).
SaveDatabaseUpTo(entry, o, db, failAt) ==
  ExecuteAllPersist(entry, db,
                    SubSeq(SaveStatements(entry, o), 1, failAt - 1), 1)

SaveObjectUpTo(entry, o, failAt) ==
  [o EXCEPT !.dicts =
     [d \in 1..Len(o.dicts) |->
        IF d < SaveStatements(entry, o)[failAt].dict
        THEN DictClear(o.dicts[d]) ELSE o.dicts[d]]]

SaveFails ==
  /\ pc = "runtime"
  /\ obj.live
  /\ \E failAt \in 1..Len(SaveStatements(TheEntry, obj)) :
       /\ LET db == SaveDatabaseUpTo(TheEntry, obj, DB, failAt)
          IN /\ dbRows' = db.rows
             /\ dbMap' = db.map
       /\ obj' = SaveObjectUpTo(TheEntry, obj, failAt)
       /\ last' = [last EXCEPT !.op = "save failed",
                               !.dict = SaveStatements(TheEntry, obj)[failAt].dict,
                               !.key = 0]
  /\ UNCHANGED <<pc, genVars, runVars>>

InitPartial ==
  /\ pc = "runtime"
  /\ entries = <<PartialEntry>>
  /\ emitted = <<Emit(PartialEntry)>>
  /\ tableName = ""
  /\ fields = <<>>
  /\ table = <<>>
  /\ rows = <<>>
  /\ pos = 1
  /\ should_create = TRUE
  /\ found = {}
  /\ log = <<>>
  /\ dbRows = {}
  /\ dbMap = [d \in 1..Len(PartialEntry.dictionaries) |-> {}]
  /\ obj \in {NewObject(PartialEntry, id) : id \in Ids}
  /\ last = [op |-> "new", dict |-> 0, key |-> 0, flushed |-> FALSE,
            recent |-> NoRecent(PartialEntry)]

NextPartial ==
  \/ MapSet
  \/ MapErase
  \/ Save
  \/ SaveFails

SpecPartial == InitPartial /\ [][NextPartial]_vars

\* The sub-maps' pending deltas.
Pending(o) ==
  [d \in 1..Len(o.dicts) |->
     [dirty |-> DirtyKeys(o.dicts[d]), erased |-> ErasedKeys(o.dicts[d])]]

\* C11: a save in which a statement fails clears no sub-map's dirty or
\* erased keys.
C11_ClearedOnlyOnSuccess ==
  [][last'.op = "save failed" => Pending(obj') = Pending(obj)]_vars

\* C12: remove() deletes the instance's row of the entity table and nothing
\* else: the rows of every sub-map table, the instance's map contents and
\* its dirty and erased keys are as before.
C12_RemoveOnlyEntityRow ==
  [][last'.op = "remove" =>
       /\ dbMap' = dbMap
       /\ obj' = obj
       /\ dbRows' = {r \in dbRows :
                       PkVals(TheEntry, r) # PkVals(TheEntry, obj.vals)}]_vars

\* remove() was just called on a saved instance that holds a flushed entry,
\* a dirty key and an erased key; the flushed row is still stored.
C12_Witness ==
  /\ last.op = "remove"
  /\ dbRows = {}
  /\ dbMap[1] # {}
  /\ DirtyKeys(obj.dicts[1]) # {}
  /\ ErasedKeys(obj.dicts[1]) # {}

\* C13: every field list handed to tableGeneration, of an entity table or of
\* a sub-map table, has a primary-key field and no primary-key field of type
\* string.
C13_KeysNeverString ==
  pc \in {"scan", "missing", "create", "done"} =>
    /\ PrimaryKeys(fields) # <<>>
    /\ \A i \in 1..Len(fields) :
         fields[i].isPrimaryKey => fields[i].type # "string"

\* ------------------------------------------------------------------ C14
\* A whole run of the generated block for the field list fs on the catalog
\* cat, as one value: the scan up to its break, the missing-field checks,
\* the create block and the UPDATE statements (tswow-orm.ts:449-589).
RECURSIVE Scan(_, _, _, _)
Scan(fs, cat, j, s) ==
  IF j > Len(cat) \/ s.brk THEN s
  ELSE Scan(fs, cat, j + 1,
            ScanStep(fs, cat[j].name, cat[j].type,
                     \E i \in 1..Len(s.table) :
                       s.table[i].name = cat[j].name /\ s.table[i].pk,
                     s))

Reconcile(fs, cat) ==
  LET s0 == [should_create |-> cat = <<>>, found |-> {}, log |-> <<>>,
             table |-> cat, brk |-> FALSE]
      s1 == IF cat = <<>> THEN s0
            ELSE MissingFields(fs, 1, Scan(fs, cat, 1, s0))
  IN Issue(s1, CreateStatements(fs, s1.should_create)
                 \o BackfillStatements(fs))

\* The table has exactly one column per field of fs, of the field's read
\* type, and no other column.
MatchesSchema(tbl, fs) ==
  /\ Len(tbl) = Len(fs)
  /\ \A i \in 1..Len(fs) :
       Cardinality({j \in 1..Len(tbl) :
                      /\ tbl[j].name = fs[i].name
                      /\ ToUpper(tbl[j].type) = getReadSQLType(fs[i])}) = 1

\* The steps of a log that change the schema.
SchemaChanges(evs) ==
  Filter(evs, {e \in Range(evs) : e.ev = "query" /\ e.op # "BackfillDefault"})

\* C14: after a run on an existing table the table has exactly one column
\* per declared field, each of the field's read type, and a second run on
\* that table executes no schema-changing statement and decides no rebuild.
C14_ConvergesAndIdempotent ==
  (pc = "done" /\ rows # <<>>) =>
    LET first == Reconcile(fields, rows)
        second == Reconcile(fields, table)
    IN /\ first.table = table
       /\ first.log = log
       /\ MatchesSchema(table, fields)
       /\ SchemaChanges(second.log) = <<>>
       /\ ~second.should_create
       /\ second.table = table

\* A run that altered an existing table in place: it dropped a column, wrote
\* a column type, and decided no rebuild.
C14_Witness ==
  /\ pc = "done"
  /\ rows # <<>>
  /\ ~should_create
  /\ \E i \in 1..Len(Plan) : Plan[i].op = "DropColumn"
  /\ \E i \in 1..Len(Plan) : Plan[i].op \in {"AddColumn", "ModifyColumnType"}
  /\ ~MatchesSchema(rows, fields)

\* ------------------------------------------------------------------ C15
\* The registry when handleClass is called: empty, or holding a class that
\* was accepted before.
RegisteredBefore ==
  {<<>>} \cup {<<Entry("Guild", "world", d)>> :
                 d \in {x \in Declarations : ClassError(x) = ""}}

InitClasses ==
  /\ pc = "declare"
  /\ entries \in RegisteredBefore
  /\ emitted = [i \in 1..Len(entries) |-> Emit(entries[i])]
  /\ tableName = ""
  /\ fields = <<>>
  /\ table = <<>>
  /\ rows = <<>>
  /\ pos = 1
  /\ should_create = TRUE
  /\ found = {}
  /\ log = <<>>
  /\ dbRows = {}
  /\ dbMap = <<>>
  /\ obj = NoObject
  /\ last = [op |-> "none", dict |-> 0, key |-> 0, flushed |-> FALSE,
            recent |-> <<>>]

NextClasses == handleClass

SpecClasses == InitClasses /\ [][NextClasses]_vars

TableReadType(type) ==
  CASE type \in {"int", "int32"} -> "INT(11)"
    [] type = "int8" -> "TINYINT(4)"
    [] type = "int16" -> "SMALLINT(6)"
    [] type = "int64" -> "BIGINT(20)"
    [] type = "uint8" -> "TINYINT(3) UNSIGNED"
    [] type = "uint16" -> "SMALLINT(5) UNSIGNED"
    [] type = "uint32" -> "INT(10) UNSIGNED"
    [] type = "uint64" -> "BIGINT(20) UNSIGNED"
    [] type = "float" -> "FLOAT"
    [] type = "double" -> "DOUBLE"
    [] type = "string" -> "TEXT"

TableWriteType(type) ==
  CASE type \in {"int", "int32"} -> "INT"
    [] type = "int8" -> "TINYINT"
    [] type = "int16" -> "SMALLINT"
    [] type = "int64" -> "BIGINT"
    [] type = "uint8" -> "TINYINT UNSIGNED"
    [] type = "uint16" -> "SMALLINT UNSIGNED"
    [] type = "uint32" -> "INT UNSIGNED"
    [] type = "uint64" -> "BIGINT UNSIGNED"
    [] type = "float" -> "FLOAT"
    [] type = "double" -> "DOUBLE"
    [] type = "string" -> "TEXT"

\* A type text without its parenthesized width.
StripWidth(text) ==
  LET open == {i \in 1..Len(text) : SubSeq(text, i, i) = "("}
      close == {i \in 1..Len(text) : SubSeq(text, i, i) = ")"}
  IN IF open = {} \/ close = {} THEN text
     ELSE SubSeq(text, 1, (CHOOSE i \in open : \A j \in open : i <= j) - 1)
            \o SubSeq(text, (CHOOSE i \in close : \A j \in close : i <= j) + 1,
                      Len(text))

\* Field lists over every scalar type: the key `id` and up to MaxFields
\* fields of any type of MethodTypes.
TypedFieldLists ==
  UNION {{<<Field(MemberNames[1], "uint32", TRUE, "0")>>
            \o [i \in 1..n |->
                  Field(MemberNames[i + 1], ts[i], FALSE, DefaultLiteral(ts[i]))] :
          ts \in [1..n -> MethodTypes]} : n \in 1..MaxFields}

\* The live table before the run: absent, or the key column and the first
\* field's column under one of the reported types.
TypedCatalogs(fs) ==
  {<<>>} \cup {<<Column(fs[1].name, "int(10) unsigned", TRUE),
                 Column(fs[2].name, t, FALSE)>> : t \in RawTypes}

\* The generated block is entered for a class whose fields are of any type.
InitTypes ==
  /\ \E fs \in TypedFieldLists :
       /\ entries = <<[className |-> "Player", databaseType |-> "world",
                       fields |-> fs, dictionaries |-> <<>>]>>
       /\ fields = fs
       /\ table \in TypedCatalogs(fs)
  /\ emitted = <<Emit(entries[1])>>
  /\ tableName = "Player"
  /\ rows = table
  /\ should_create = (table = <<>>)
  /\ pc = IF table = <<>> THEN "create" ELSE "scan"
  /\ pos = 1
  /\ found = {}
  /\ log = <<>>
  /\ dbRows = {}
  /\ dbMap = <<>>
  /\ obj = NoObject
  /\ last = [op |-> "none", dict |-> 0, key |-> 0, flushed |-> FALSE,
            recent |-> <<>>]

NextTypes ==
  \/ ScanRow
  \/ MissingPass
  \/ CreateAndBackfill

SpecTypes == InitTypes /\ [][NextTypes]_vars

\* The columns this run wrote: all of them after CREATE TABLE, else the ones
\* it added or modified.
WrittenColumns ==
  {j \in 1..Len(table) :
     \E i \in 1..Len(Plan) :
       \/ Plan[i].op = "CreateTable"
       \/ Plan[i].op \in {"AddColumn", "ModifyColumnType"}
            /\ Plan[i].col = table[j].name}

\* C16: for every scalar type the read and write renderings are the ones of
\* the specification's table, the write rendering is the read rendering
\* without its parenthesized width, and a column written with a field's
\* write type is observed with the field's read type.
C16_Renderings ==
  /\ \A i \in 1..Len(fields) :
       /\ getReadSQLType(fields[i]) = TableReadType(fields[i].type)
       /\ getWriteSQLType(fields[i]) = TableWriteType(fields[i].type)
       /\ getWriteSQLType(fields[i]) = StripWidth(getReadSQLType(fields[i]))
  /\ pc = "done" =>
       \A j \in WrittenColumns :
         ToUpper(table[j].type) = getReadSQLType(FieldNamed(table[j].name))

\* A run that created, added or modified a column of a signed integer type.
C16_Witness ==
  /\ pc = "done"
  /\ \E j \in WrittenColumns :
       /\ FieldNamed(table[j].name).type \in {"int", "int32"}
       /\ table[j].type = "int(11)"
  /\ \E j \in WrittenColumns :
       FieldNamed(table[j].name).type \in {"uint8", "uint16", "uint64"}

\* ------------------------------------------------------------------ C17
\* The statements a step appended to the log.
NewSteps ==
  Filter(SubSeq(log', Len(log) + 1, Len(log')),
         {e \in Range(log') : e.ev = "query"})

\* C17: the scan step for an observation that matches a field by name and
\* not by read type. A string field: DropColumn then AddColumn TEXT. Another
\* field observed as "TEXT": DropColumn then AddColumn with the write type,
\* and no rebuild, key member or not. Otherwise ModifyColumnType for a
\* column that is no key member, and a rebuild decision with no statement
\* for a key member.
C17_MismatchBranches ==
  [][(/\ pc = "scan"
      /\ Declared(rows[pos].name)
      /\ ~CarriesReadType(rows[pos])) =>
       LET o == rows[pos]
           f == FieldNamed(o.name)
       IN IF f.type = "string"
          THEN /\ NewSteps = <<Query("DropColumn", o.name, "", <<>>),
                               Query("AddColumn", o.name, "TEXT", <<>>)>>
               /\ should_create' = should_create
          ELSE IF ToUpper(o.type) = "TEXT"
          THEN /\ NewSteps = <<Query("DropColumn", o.name, "", <<>>),
                               Query("AddColumn", o.name,
                                     getWriteSQLType(f), <<>>)>>
               /\ should_create' = should_create
          ELSE IF o.pk
          THEN /\ NewSteps = <<>>
               /\ should_create'
               /\ pc' = "missing"
          ELSE /\ NewSteps = <<Query("ModifyColumnType", f.name,
                                     getWriteSQLType(f), <<>>)>>
               /\ should_create' = should_create]_vars

\* A key member observed as text for a field that is no string was dropped
\* and added again, and the run decided no rebuild.
C17_Witness ==
  /\ pc = "done"
  /\ ~should_create
  /\ \E j \in 1..Len(rows) :
       /\ rows[j].pk
       /\ Declared(rows[j].name)
       /\ FieldNamed(rows[j].name).type # "string"
       /\ rows[j].type = "text"
       /\ \E i \in 1..Len(Plan) :
            Plan[i].op = "AddColumn" /\ Plan[i].col = rows[j].name

\* ------------------------------------------------------------------ C18
\* The position in the log of the announcement that a key member's type
\* changed.
AbortAsks ==
  {i \in 1..Len(log) :
     log[i].ev = "ask" /\ log[i].op = "changed type of primary key"}

\* C18: when a key member's type change sets should_create, the scan stops
\* there: the announcement is made once, for the first such observation;
\* everything before it belongs to an earlier observation; and what follows
\* it is the rebuild alone (DROP TABLE IF EXISTS, CREATE TABLE and the
\* UPDATE statements): no step or announcement for a later observation or
\* for a missing field.
C18_AbortStopsScan ==
  (pc = "done" /\ ScanAborted) =>
    /\ Cardinality(AbortAsks) = 1
    /\ \A a \in AbortAsks :
         /\ log[a].col = rows[FirstAbort].name
         /\ SubSeq(log, a + 1, Len(log)) = RebuildPlan
         /\ \A i \in 1..(a - 1) :
              \E k \in 1..(FirstAbort - 1) : rows[k].name = log[i].col
    /\ should_create

\* The scan was aborted before its last observation, and a declared field
\* has no column.
C18_Witness ==
  /\ pc = "done"
  /\ ScanAborted
  /\ FirstAbort < Len(rows)
  /\ \E i \in 1..Len(fields) : ~Observed(fields[i].name)

\* ------------------------------------------------------------------ C19
\* The positions in the statements sts of the statements of kind op for the
\* sub-map d, and the keys they name.
StatementsOf(sts, op, d) ==
  {i \in 1..Len(sts) : sts[i].op = op /\ sts[i].dict = d}
KeysOf(sts, op, d) == {sts[i].row[2] : i \in StatementsOf(sts, op, d)}

\* C19: in every save the entity's upsert is the first statement; each
\* sub-map has one upsert per dirty key and for no other key, one delete per
\* erased key and for no other key, every upsert before every delete; and
\* the dirty and erased keys the statements were made from are cleared by
\* the save.
C19_SaveOrder ==
  [][last'.op = "save" =>
       LET sts == SaveStatements(TheEntry, obj)
       IN /\ sts[1].op = "upsert"
          /\ \A i \in 2..Len(sts) : sts[i].op \in {"map_upsert", "map_delete"}
          /\ \A d \in 1..Len(obj.dicts) :
               /\ KeysOf(sts, "map_upsert", d) = DirtyKeys(obj.dicts[d])
               /\ Cardinality(StatementsOf(sts, "map_upsert", d))
                    = Cardinality(DirtyKeys(obj.dicts[d]))
               /\ KeysOf(sts, "map_delete", d) = ErasedKeys(obj.dicts[d])
               /\ Cardinality(StatementsOf(sts, "map_delete", d))
                    = Cardinality(ErasedKeys(obj.dicts[d]))
               /\ \A i \in StatementsOf(sts, "map_upsert", d),
                     j \in StatementsOf(sts, "map_delete", d) : i < j
               /\ \A k \in DirtyKeys(obj.dicts[d]) :
                    <<PkVals(TheEntry, obj.vals), k, obj.dicts[d].map[k].value>>
                      \in dbMap'[d]
               /\ \A k \in ErasedKeys(obj.dicts[d]) :
                    \A r \in dbMap'[d] :
                      ~(r[1] = PkVals(TheEntry, obj.vals) /\ r[2] = k)
               /\ DirtyKeys(obj'.dicts[d]) = {}
               /\ ErasedKeys(obj'.dicts[d]) = {}
          /\ dbRows' # {}]_vars

\* A save has flushed a sub-map: a key of the map has its row, and a key
\* that is not in the map has none while the entity's row is stored.
C19_Witness ==
  /\ last.op = "save"
  /\ obj.live
  /\ \E k \in DOMAIN obj.dicts[1].map :
       <<PkVals(TheEntry, obj.vals), k, obj.dicts[1].map[k].value>> \in dbMap[1]
  /\ \E k \in MapKeys :
       /\ k \notin DOMAIN obj.dicts[1].map
       /\ \A r \in dbMap[1] : r[2] # k
  /\ dbRows # {}

\* ------------------------------------------------------------------ C20
\* The rows of the sub-map d stored for the instance's key k.
StoredFor(d, k) ==
  {r \in dbMap[d] : r[1] = PkVals(TheEntry, obj.vals) /\ r[2] = k}

\* C20: after a save, for every key of every sub-map: if the most recent
\* operation on it since the flush before was set(k, v), the table holds
\* the row (k, v) and no other row for k; if it was erase(k), the table
\* holds no row for k.
C20_MostRecentWins ==
  (last.op = "save" /\ last.flushed) =>
    \A d \in 1..Len(obj.dicts), k \in MapKeys :
      /\ last.recent[d][k][1] = "set" =>
           StoredFor(d, k) =
             {<<PkVals(TheEntry, obj.vals), k, last.recent[d][k][2]>>}
      /\ last.recent[d][k][1] = "erase" => StoredFor(d, k) = {}

\* A save flushed a key that was set last to a value other than its stored
\* one, and a key that was erased last.
C20_Witness ==
  /\ last.op = "save"
  /\ \E k \in MapKeys : last.recent[1][k] = <<"set", 1>>
  /\ \E k \in MapKeys : last.recent[1][k] = <<"erase", 0>>
  /\ dbMap[1] # {}

\* ------------------------------------------------------------------ C21
\* The observed columns that carry a declared name come in the order of the
\* declaration: the table was left by runs for declarations that listed
\* these fields in the same relative order.
InDeclarationOrder(cat) ==
  \A i, j \in 1..Len(cat) :
    (i < j /\ Declared(cat[i].name) /\ Declared(cat[j].name)) =>
      IndexOfField(cat[i].name) < IndexOfField(cat[j].name)

\* C21: after a run the columns of the table are the declared fields in
\* declaration order, so that the positional INSERT of save and the decoding
\* by index of Load address the declared field.
C21_ColumnOrderIsDeclarationOrder ==
  (pc = "done" /\ InDeclarationOrder(rows)) => Names(table) = Names(fields)

\* ------------------------------------------------------------------ C22
\* The names of the columns of tbl that are members of its primary key.
KeyMembers(tbl) == {tbl[j].name : j \in {i \in 1..Len(tbl) : tbl[i].pk}}

\* C22: after the statements of a run were applied to an existing table, the
\* columns that are members of its primary key are exactly the declared
\* primary-key fields.
C22_KeyMembersAreDeclaredKeys ==
  (pc = "done" /\ rows # <<>>) => KeyMembers(table) = Range(Names(PrimaryKeys(fields)))

\* ------------------------------------------------------------------ C23
\* The table the sub-map SELECT of Load reads for the dictionary d.
MapLoadTable(entry, d) ==
  db_name(entry.className, entry.dictionaries[d].name)

\* An instance whose sub-map d holds one dirty and one erased key, so that
\* save issues both a map upsert and a map delete for it.
DeltaObject(entry, d) ==
  [NewObject(entry, 1) EXCEPT
     !.dicts[d] = DictErase(DictSet(DictSet(@, 1, 0), 2, 0), 2)]

\* The tables the map upsert and map delete statements of save name.
MapSaveTables(entry, d) ==
  {s.table : s \in Range(DictStatements(entry, DeltaObject(entry, d), d))}

\* The tables the generated queries of a class name for its entity rows.
EntityQueryTables(out) ==
  {out.loadQuery.table, out.LoadQuery.table,
   out.saveQuery.table, out.removeQuery.table}

EntityTableAgrees(e) ==
  EntityQueryTables(emitted[e]) = {TablesOf(entries[e])[1].tableName}

MapTablesAgree(e) ==
  \A d \in 1..Len(entries[e].dictionaries) :
    MapSaveTables(entries[e], d) \cup {MapLoadTable(entries[e], d)}
      = {TablesOf(entries[e])[1 + d].tableName}

\* C23: with table names compared case-sensitively, the table reconciled for
\* a class is the table its instance load query, static load query, save
\* statement and remove statement name, and the table reconciled for a
\* sub-map is the one its map upsert, map delete and map load name.
C23_OneTablePerClass ==
  \A e \in 1..Len(entries) : EntityTableAgrees(e) /\ MapTablesAgree(e)
====
